---- MODULE Spec2Model ----
(***************************************************************************)
(* The two OBJ viewers of the repository.                                  *)
(*                                                                         *)
(*   "flat"     src/src/main.cpp      loadOBJ builds one Vertex per face   *)
(*                                    corner; drawn with glDrawArrays      *)
(*   "indexed"  src/unnamed/part_000  loadOBJ deduplicates the corners     *)
(*                                    into a vertex list and an index      *)
(*                                    list; textured, glDrawElements       *)
(*                                                                         *)
(* A float is modelled by its bit pattern, named by a small code:          *)
(*   0 is +0.0f, 1 is 1.0f, 2 is -0.0f.                                    *)
(* Vertex::operator== is memcmp, so two floats are equal iff their codes   *)
(* are; +0.0f and -0.0f differ although they hash alike.                   *)
(*                                                                         *)
(* The parsed file (tinyobj's attrib_t and shapes) is the input.  attrib   *)
(* is fixed by Init.  The shapes are read once, front to back, so what the *)
(* loader reads next (one more face or not, one more shape or not, the     *)
(* face's corner count, the corner's index triple) is drawn when it is     *)
(* read, from the sets the input file of Init allows.                      *)
(***************************************************************************)
EXTENDS Integers, Sequences, FiniteSets, TLC

\* Largest number of faces of an input file (all shapes together).
MaxFaces == 2

VARIABLES
    prog,            \* which program runs: "flat" or "indexed"
    obj,             \* the input file: attrib arrays and what its faces may hold
    pc,              \* where main (and loadOBJ inside it) stands
    f,               \* loadOBJ: face counter of the current shape
    v,               \* loadOBJ: corner counter of the current face
    index_offset,    \* loadOBJ: offset of the current face in shape.mesh.indices
    fv,              \* num_face_vertices[f] of the face being read (0: none)
    idx,             \* loadOBJ: the index triple read last
    vertices,        \* loadOBJ: std::vector<Vertex> vertices
    indices,         \* loadOBJ: std::vector<uint32_t> indices (indexed only)
    uniqueVertices,  \* loadOBJ: std::unordered_map<Vertex, uint32_t> (indexed only)
    corners,         \* the resolved corner stream the loader was presented so far
    oob,             \* a source array was subscripted outside its bounds
    mesh,            \* main: Mesh mesh
    gpu,             \* GPU objects alive
    shouldClose,     \* glfwWindowShouldClose(window)
    error,           \* what() of the exception that left main, "" if none
    freeCalls        \* number of calls of freeMesh

vars == <<prog, obj, pc, f, v, index_offset, fv, idx, vertices, indices,
          uniqueVertices, corners, oob, mesh, gpu, shouldClose, error, freeCalls>>

loaderVars == <<f, v, index_offset, fv, idx, vertices, indices, uniqueVertices,
                corners, oob>>

(***************************************************************************)
(* Values                                                                  *)
(***************************************************************************)
Floats == {0, 1, 2}

\* The bit patterns of +0.0f and -0.0f.
ZeroBits == {0, 2}

MakeVertex(p, n, t) == [position |-> p, normal |-> n, texcoords |-> t]

MakeIdx(vi, ni, ti) == [vertex_index |-> vi, normal_index |-> ni, texcoord_index |-> ti]

\* idx outside the loop body, where the variable does not exist.
NoIdx == MakeIdx(0, -1, -1)

MakeAttrib(vs, ns, ts) == [vertices |-> vs, normals |-> ns, texcoords |-> ts]

\* Mesh before loadOBJ has returned.
NoMesh == [alloc |-> "none"]

\* Variant: an operator== that compares the positions alone.
VertexEqPositionOnly(a, b) == a.position = b.position

\* Vertex::operator==: memcmp over the 8 floats (the struct has no padding).
VertexEq(a, b) ==
    /\ a.position = b.position
    /\ a.normal = b.normal
    /\ a.texcoords = b.texcoords

RECURSIVE Xor(_, _)
Xor(a, b) ==
    IF a = 0 THEN b
    ELSE IF b = 0 THEN a
    ELSE ((a + b) % 2) + 2 * Xor(a \div 2, b \div 2)

\* std::hash<float>: 0 for both zeros, otherwise a hash of the bytes, which
\* the bit pattern's code stands for.
HashFloat(x) == IF x \in ZeroBits THEN 0 ELSE x

\* std::hash<Vertex>. size_t does not overflow on the small codes used here.
HashVertex(vx) ==
    LET h1 == Xor(Xor(HashFloat(vx.position[1]), HashFloat(vx.position[2])),
                  HashFloat(vx.position[3]))
        h2 == Xor(Xor(HashFloat(vx.normal[1]), HashFloat(vx.normal[2])),
                  HashFloat(vx.normal[3]))
        h3 == Xor(HashFloat(vx.texcoords[1]), HashFloat(vx.texcoords[2]))
    IN  Xor(Xor(h1, h2 * 2), h3 * 4)

\* Variant: a key match that trusts the hash and skips operator==.
SameKeyHashOnly(k, vx) == HashVertex(k) = HashVertex(vx)

\* unordered_map's key match: same bucket chain (equal hash), then operator==.
SameKey(k, vx) == HashVertex(k) = HashVertex(vx) /\ VertexEq(k, vx)

\* Variant: a lookup that never finds the key.
CountNever(uv, vx) == 0

\* uniqueVertices.count(vertex)
Count(uv, vx) == Cardinality({e \in uv : SameKey(e.key, vx)})

\* uniqueVertices[vertex] = n
Assign(uv, vx, n) ==
    {e \in uv : ~SameKey(e.key, vx)} \cup
    {[key |-> (IF \E e \in uv : SameKey(e.key, vx)
               THEN (CHOOSE e \in uv : SameKey(e.key, vx)).key
               ELSE vx),
      value |-> n]}

\* uniqueVertices[vertex] read: the mapped value, a fresh entry 0 when absent.
At(uv, vx) ==
    IF \E e \in uv : SameKey(e.key, vx)
    THEN (CHOOSE e \in uv : SameKey(e.key, vx)).value
    ELSE 0

AfterAt(uv, vx) ==
    IF \E e \in uv : SameKey(e.key, vx) THEN uv ELSE uv \cup {[key |-> vx, value |-> 0]}

\* Variant: a 1-based index, as the OBJ text has them.
NewIndexOneBased(vs) == Len(vs) + 1

\* (uint32_t)vertices.size(): the sizes here are far below 2^32, where the
\* cast changes nothing.
NewIndex(vs) == Len(vs)

\* Variant: the vertex inserted at the front.
PrependVertex(vs, vx) == <<vx>> \o vs

\* vertices.push_back(vertex)
AppendVertex(vs, vx) == Append(vs, vx)

(***************************************************************************)
(* Resolving a corner                                                      *)
(***************************************************************************)
\* arr[i] of a std::vector<float>, i as the code computes it. Inside the
\* vector it is the element; outside it the read is undefined and may yield
\* any float (the other outcome, a crash, is the loader's CornerFault step).
InBounds(arr, i) == 0 <= i /\ i < Len(arr)

ReadAt(arr, i) == IF InBounds(arr, i) THEN {arr[i + 1]} ELSE Floats

Read3(arr, i) ==
    {<<x, y, z>> : x \in ReadAt(arr, 3 * i), y \in ReadAt(arr, 3 * i + 1),
                   z \in ReadAt(arr, 3 * i + 2)}

Read2(arr, i) == {<<x, y>> : x \in ReadAt(arr, 2 * i), y \in ReadAt(arr, 2 * i + 1)}

HasNormal(a, i) == a.normals # <<>> /\ i.normal_index >= 0

HasTexcoord(a, i) == a.texcoords # <<>> /\ i.texcoord_index >= 0

\* The triple names only elements its arrays have: the position is there,
\* and so is the normal (the texcoord) when the array is not empty and the
\* index not negative.
IdxInRange(a, i) ==
    /\ InBounds(a.vertices, 3 * i.vertex_index)
    /\ InBounds(a.vertices, 3 * i.vertex_index + 2)
    /\ (a.normals # <<>> /\ i.normal_index >= 0) => InBounds(a.normals, 3 * i.normal_index + 2)
    /\ (a.texcoords # <<>> /\ i.texcoord_index >= 0)
          => InBounds(a.texcoords, 2 * i.texcoord_index + 1)

\* vertex.normal = {0.0f, 0.0f, 0.0f};
Flat_FallbackNormal == <<0, 0, 0>>

\* Variant: the flat loader's constant in the indexed loader.
FallbackNormalZero == <<0, 0, 0>>

\* vec3{0.f, 0.f, 1.f}
Idx_FallbackNormal == <<0, 0, 1>>

FallbackTexcoords == <<0, 0>>

\* The Vertex values the corner can resolve to (one, unless a read is
\* out of bounds).
Resolve(a, i, fallbackNormal) ==
    {MakeVertex(p, n, t) :
        p \in Read3(a.vertices, i.vertex_index),
        n \in (IF HasNormal(a, i) THEN Read3(a.normals, i.normal_index)
               ELSE {fallbackNormal}),
        t \in (IF HasTexcoord(a, i) THEN Read2(a.texcoords, i.texcoord_index)
               ELSE {FallbackTexcoords})}

(***************************************************************************)
(* Input files                                                             *)
(***************************************************************************)
\* kind "plain": every corner holds one of the triples of idxs.
\* kind "soup":  corner k of the file holds position k (a position of its
\*               own) or position 0, and no normal or texcoord.
\* sizes: the corner counts its faces may have (tinyobj keeps no face of
\* fewer than 3 corners).  maxBad: how many out-of-range triples it holds.
MakeObj(a, kind, idxs, sizes, maxBad) ==
    [attrib |-> a, kind |-> kind, idxs |-> idxs, sizes |-> sizes, maxBad |-> maxBad]

RECURSIVE SoupPositions(_)
SoupPositions(n) ==
    IF n = 0 THEN <<>>
    ELSE SoupPositions(n - 1) \o <<(n - 1) % 3, ((n - 1) \div 3) % 3, ((n - 1) \div 9) % 3>>

\* Two positions that differ in the sign of a zero, and so hash alike, and
\* one normal; position 0 with and without the normal, position 1 without.
FileNormals ==
    MakeObj(MakeAttrib(<<1, 0, 1, 1, 2, 1>>, <<1, 0, 0>>, <<>>), "plain",
            {MakeIdx(0, -1, -1), MakeIdx(0, 0, -1), MakeIdx(1, -1, -1)}, {3}, 0)

\* Positions 0 and 1 hold the same floats; normal 0 is the indexed loader's
\* fallback and texcoord 0 the texcoord fallback, so the first two triples
\* resolve to one Vertex; the third differs from it in the texcoord alone.
FileShared ==
    MakeObj(MakeAttrib(<<0, 1, 1, 0, 1, 1>>, <<0, 0, 1>>, <<0, 0, 1, 1>>), "plain",
            {MakeIdx(0, -1, -1), MakeIdx(1, 0, 0), MakeIdx(0, -1, 1)}, {3}, 0)

FileSoup ==
    MakeObj(MakeAttrib(SoupPositions(3 * MaxFaces), <<>>, <<>>), "soup", {}, {3}, 0)

\* No normals and no texcoords, though some corners name one; quads.
FileBare ==
    MakeObj(MakeAttrib(<<1, 0, 0, 0, 1, 0>>, <<>>, <<>>), "plain",
            {MakeIdx(0, -1, -1), MakeIdx(1, 0, 0)}, {3, 4}, 0)

\* Normals and texcoords present.
FileFull ==
    MakeObj(MakeAttrib(<<1, 1, 1>>, <<1, 0, 0>>, <<1, 1>>), "plain",
            {MakeIdx(0, -1, -1), MakeIdx(0, 0, 0)}, {3}, 0)

\* One corner may name a position, normal or texcoord the file does not have.
FileBad ==
    MakeObj(MakeAttrib(<<1, 1, 1>>, <<1, 0, 0>>, <<1, 1>>), "plain",
            {MakeIdx(0, 0, 0), MakeIdx(1, 0, 0), MakeIdx(-1, 0, 0),
             MakeIdx(0, 1, 0), MakeIdx(0, 0, 1)}, {3}, 1)

DedupFiles == {FileNormals, FileShared, FileSoup}

MainFiles == {FileBare, FileFull, FileBad}

\* The index triples corner number k of the file (counted from 0 over the
\* corners read) may hold.
CornerChoices(o, k, bad) ==
    LET all == IF o.kind = "soup"
               THEN {MakeIdx(k, -1, -1), MakeIdx(0, -1, -1)}
               ELSE o.idxs
    IN  {i \in all : IdxInRange(o.attrib, i) \/ (~bad /\ o.maxBad > 0)}


NonTriangleMsg == "Non-triangle face detected."

(***************************************************************************)
(* Initial states: main stands before its call of loadOBJ. The window and  *)
(* the GL context exist; no GPU object has been created.                   *)
(***************************************************************************)
\* Variant: the buffers generated before the mesh is loaded.
GpuBuffersFirst == {"VAO", "VBO"}

\* The GPU objects alive when main calls loadOBJ.
GpuBeforeLoad == {}

InitWith(progs, files) ==
    /\ prog \in progs
    /\ obj \in files
    /\ pc = "loadOBJ"
    /\ f = 0
    /\ v = 0
    /\ index_offset = 0
    /\ fv = 0
    /\ idx = NoIdx
    /\ vertices = <<>>
    /\ indices = <<>>
    /\ uniqueVertices = {}
    /\ corners = <<>>
    /\ oob = FALSE
    /\ mesh = NoMesh
    /\ gpu = GpuBeforeLoad
    /\ shouldClose = FALSE
    /\ error = ""
    /\ freeCalls = 0

Init == InitWith({"flat", "indexed"}, MainFiles)

InitDedup == InitWith({"indexed"}, DedupFiles)

\* An exception leaves loadOBJ and, uncaught, main: std::terminate. The
\* loader's vectors are gone and main's Mesh was never constructed.
Throw(msg) ==
    /\ pc' = "terminated"
    /\ error' = msg
    /\ f' = 0
    /\ v' = 0
    /\ index_offset' = 0
    /\ idx' = NoIdx
    /\ vertices' = <<>>
    /\ indices' = <<>>
    /\ uniqueVertices' = {}
    /\ UNCHANGED <<prog, obj, corners, oob, mesh, gpu, shouldClose, freeCalls>>

\* An out-of-bounds read that faults: the process is killed.
Crash(i) ==
    /\ pc' = "crashed"
    /\ idx' = i
    /\ oob' = TRUE
    /\ UNCHANGED <<prog, obj, f, v, index_offset, fv, vertices, indices,
                   uniqueVertices, corners, mesh, gpu, shouldClose, error, freeCalls>>

\* The loop variables after corner v of a face: the face ends after corner 2,
\* and index_offset moves on by step.
AfterCorner(step) ==
    IF v = 2
    THEN /\ v' = 0
         /\ f' = f + 1
         /\ index_offset' = index_offset + step
         /\ fv' = 0
         /\ pc' = "face"
    ELSE /\ v' = v + 1
         /\ UNCHANGED <<f, index_offset, fv, pc>>

(***************************************************************************)
(* Indexed loader: src/unnamed/part_000, loadOBJ                           *)
(***************************************************************************)
Idx_Parse ==
    /\ prog = "indexed"
    /\ pc = "loadOBJ"
    /\ \E ok \in BOOLEAN :
          IF ok
          THEN /\ pc' = "face"
               /\ UNCHANGED <<prog, obj, loaderVars, mesh, gpu, shouldClose, error,
                              freeCalls>>
          ELSE /\ Throw("Failed to load OBJ")
               /\ fv' = 0

\* for (const auto& shape : shapes): one more shape.
Idx_NextShape ==
    /\ prog = "indexed"
    /\ pc = "face"
    /\ index_offset' = 0
    /\ f' = 0
    /\ UNCHANGED <<prog, obj, pc, v, fv, idx, vertices, indices, uniqueVertices,
                   corners, oob, mesh, gpu, shouldClose, error, freeCalls>>

\* f < shape.mesh.num_face_vertices.size(): one more face. Its corner count
\* is in the file and is not read by this loader.
Idx_NextFace ==
    /\ prog = "indexed"
    /\ pc = "face"
    /\ Len(corners) < 3 * MaxFaces
    /\ \E n \in obj.sizes : fv' = n
    /\ v' = 0
    /\ pc' = "corner"
    /\ UNCHANGED <<prog, obj, f, index_offset, idx, vertices, indices, uniqueVertices,
                   corners, oob, mesh, gpu, shouldClose, error, freeCalls>>

\* The shapes are exhausted.
Idx_EndShapes ==
    /\ prog = "indexed"
    /\ pc = "face"
    /\ pc' = "return"
    /\ UNCHANGED <<prog, obj, loaderVars, mesh, gpu, shouldClose, error, freeCalls>>

\* The body of for (size_t v = 0; v < 3; v++), and index_offset += 3 after
\* the third corner.
Idx_PushCorner(i, vx) ==
    LET new == Count(uniqueVertices, vx) = 0
        uv1 == IF new THEN Assign(uniqueVertices, vx, NewIndex(vertices))
               ELSE uniqueVertices
    IN  /\ idx' = i
        /\ vertices' = IF new THEN AppendVertex(vertices, vx) ELSE vertices
        /\ indices' = Append(indices, At(uv1, vx))
        /\ uniqueVertices' = AfterAt(uv1, vx)
        /\ corners' = Append(corners, vx)
        /\ oob' = (oob \/ ~IdxInRange(obj.attrib, i))
        /\ AfterCorner(3)
        /\ UNCHANGED <<prog, obj, mesh, gpu, shouldClose, error, freeCalls>>

Idx_Corner ==
    /\ prog = "indexed"
    /\ pc = "corner"
    /\ \E i \in CornerChoices(obj, Len(corners), oob) :
          \E vx \in Resolve(obj.attrib, i, Idx_FallbackNormal) : Idx_PushCorner(i, vx)

\* The same corner, when a subscript is out of bounds and the read faults.
Idx_CornerFault ==
    /\ prog = "indexed"
    /\ pc = "corner"
    /\ \E i \in CornerChoices(obj, Len(corners), oob) :
          ~IdxInRange(obj.attrib, i) /\ Crash(i)

\* Mesh mesh; ... return mesh;
Idx_Return ==
    /\ prog = "indexed"
    /\ pc = "return"
    /\ mesh' = [vertices |-> vertices, indices |-> indices,
                vertexCount |-> Len(vertices), indexCount |-> Len(indices),
                alloc |-> "live"]
    /\ pc' = "loadTexture"
    /\ f' = 0
    /\ index_offset' = 0
    /\ idx' = NoIdx
    /\ vertices' = <<>>
    /\ indices' = <<>>
    /\ uniqueVertices' = {}
    /\ UNCHANGED <<prog, obj, v, fv, corners, oob, gpu, shouldClose, error, freeCalls>>

\* loadOBJ on the files of DedupFiles, whose index triples are all in range:
\* no subscript can fault there.
NextDedup == Idx_Parse \/ Idx_NextShape \/ Idx_NextFace \/ Idx_EndShapes \/ Idx_Corner
             \/ Idx_Return

SpecDedup == InitDedup /\ [][NextDedup]_vars


(***************************************************************************)
(* Indexed viewer: src/unnamed/part_000, main after loadOBJ has returned   *)
(***************************************************************************)
mainVars == <<prog, obj, loaderVars>>

\* GLuint texID = loadTexture("textures/texture.png");
Idx_LoadTexture ==
    /\ prog = "indexed"
    /\ pc = "loadTexture"
    /\ \E ok \in BOOLEAN :
          IF ok
          THEN /\ gpu' = gpu \cup {"texture"}
               /\ pc' = "buffers"
               /\ error' = error
          ELSE /\ pc' = "terminated"
               /\ error' = "Failed to load texture image"
               /\ gpu' = gpu
    /\ UNCHANGED <<mainVars, mesh, shouldClose, freeCalls>>

\* glGenVertexArrays, glGenBuffers, glBufferData of mesh.vertices and mesh.indices
Idx_CreateBuffers ==
    /\ prog = "indexed"
    /\ pc = "buffers"
    /\ mesh.alloc = "live"
    /\ gpu' = gpu \cup {"VAO", "VBO", "EBO"}
    /\ pc' = "shaders"
    /\ UNCHANGED <<mainVars, mesh, shouldClose, error, freeCalls>>

\* The two shaders are created, linked into the program and deleted.
Idx_CreateShaders ==
    /\ prog = "indexed"
    /\ pc = "shaders"
    /\ gpu' = gpu \cup {"program"}
    /\ pc' = "render"
    /\ UNCHANGED <<mainVars, mesh, shouldClose, error, freeCalls>>

\* One pass of the render loop: glDrawElements(mesh.indexCount), then
\* glfwPollEvents, during which the close flag may be set.
Idx_RenderFrame ==
    /\ prog = "indexed"
    /\ pc = "render"
    /\ ~shouldClose
    /\ \E close \in BOOLEAN : shouldClose' = close
    /\ UNCHANGED <<mainVars, pc, mesh, gpu, error, freeCalls>>

\* glDeleteBuffers, glDeleteVertexArrays, glDeleteProgram
Idx_Cleanup ==
    /\ prog = "indexed"
    /\ pc = "render"
    /\ shouldClose
    /\ gpu' = gpu \ {"VBO", "EBO", "VAO", "program"}
    /\ pc' = "freeMesh"
    /\ UNCHANGED <<mainVars, mesh, shouldClose, error, freeCalls>>

Idx_FreeMesh ==
    /\ prog = "indexed"
    /\ pc = "freeMesh"
    /\ mesh' = [vertices |-> <<>>, indices |-> <<>>, vertexCount |-> 0, indexCount |-> 0,
                alloc |-> "null"]
    /\ freeCalls' = freeCalls + 1
    /\ pc' = "exit"
    /\ UNCHANGED <<mainVars, gpu, shouldClose, error>>

\* glfwTerminate destroys the context and what is left in it; return 0.
Idx_Exit ==
    /\ prog = "indexed"
    /\ pc = "exit"
    /\ gpu' = {}
    /\ pc' = "done"
    /\ UNCHANGED <<mainVars, mesh, shouldClose, error, freeCalls>>

(***************************************************************************)
(* Flat loader: src/src/main.cpp, loadOBJ                                  *)
(***************************************************************************)
Flat_Parse ==
    /\ prog = "flat"
    /\ pc = "loadOBJ"
    /\ \E ok \in BOOLEAN :
          IF ok
          THEN /\ pc' = "face"
               /\ UNCHANGED <<prog, obj, loaderVars, mesh, gpu, shouldClose, error,
                              freeCalls>>
          ELSE /\ Throw("Failed to load OBJ file.")
               /\ fv' = 0

Flat_NextShape ==
    /\ prog = "flat"
    /\ pc = "face"
    /\ index_offset' = 0
    /\ f' = 0
    /\ UNCHANGED <<prog, obj, pc, v, fv, idx, vertices, indices, uniqueVertices,
                   corners, oob, mesh, gpu, shouldClose, error, freeCalls>>

\* int fv = num_face_vertices[f]; if (fv != 3) throw
Flat_NextFace ==
    /\ prog = "flat"
    /\ pc = "face"
    /\ Len(corners) < 3 * MaxFaces
    /\ \E n \in obj.sizes :
          /\ fv' = n
          /\ IF n # 3
             THEN Throw(NonTriangleMsg)
             ELSE /\ v' = 0
                  /\ pc' = "corner"
                  /\ UNCHANGED <<prog, obj, f, index_offset, idx, vertices, indices,
                                 uniqueVertices, corners, oob, mesh, gpu, shouldClose,
                                 error, freeCalls>>

Flat_EndShapes ==
    /\ prog = "flat"
    /\ pc = "face"
    /\ pc' = "return"
    /\ UNCHANGED <<prog, obj, loaderVars, mesh, gpu, shouldClose, error, freeCalls>>

\* vertices.push_back(vertex), and index_offset += fv after the third corner.
Flat_PushCorner(i, vx) ==
    /\ idx' = i
    /\ vertices' = Append(vertices, vx)
    /\ corners' = Append(corners, vx)
    /\ oob' = (oob \/ ~IdxInRange(obj.attrib, i))
    /\ AfterCorner(fv)
    /\ UNCHANGED <<prog, obj, indices, uniqueVertices, mesh, gpu, shouldClose, error,
                   freeCalls>>

Flat_Corner ==
    /\ prog = "flat"
    /\ pc = "corner"
    /\ \E i \in CornerChoices(obj, Len(corners), oob) :
          \E vx \in Resolve(obj.attrib, i, Flat_FallbackNormal) : Flat_PushCorner(i, vx)

Flat_CornerFault ==
    /\ prog = "flat"
    /\ pc = "corner"
    /\ \E i \in CornerChoices(obj, Len(corners), oob) :
          ~IdxInRange(obj.attrib, i) /\ Crash(i)

Flat_Return ==
    /\ prog = "flat"
    /\ pc = "return"
    /\ mesh' = [vertices |-> vertices, vertexCount |-> Len(vertices), alloc |-> "live"]
    /\ pc' = "buffers"
    /\ f' = 0
    /\ index_offset' = 0
    /\ idx' = NoIdx
    /\ vertices' = <<>>
    /\ UNCHANGED <<prog, obj, v, fv, indices, uniqueVertices, corners, oob, gpu,
                   shouldClose, error, freeCalls>>

(***************************************************************************)
(* Flat viewer: src/src/main.cpp, main after loadOBJ has returned          *)
(***************************************************************************)
Flat_CreateBuffers ==
    /\ prog = "flat"
    /\ pc = "buffers"
    /\ mesh.alloc = "live"
    /\ gpu' = gpu \cup {"VAO", "VBO"}
    /\ pc' = "shaders"
    /\ UNCHANGED <<mainVars, mesh, shouldClose, error, freeCalls>>

Flat_CreateShaders ==
    /\ prog = "flat"
    /\ pc = "shaders"
    /\ gpu' = gpu \cup {"program"}
    /\ pc' = "render"
    /\ UNCHANGED <<mainVars, mesh, shouldClose, error, freeCalls>>

\* One pass of the render loop: processInput, glDrawArrays(mesh.vertexCount),
\* glfwPollEvents; either may set the close flag.
Flat_RenderFrame ==
    /\ prog = "flat"
    /\ pc = "render"
    /\ ~shouldClose
    /\ \E close \in BOOLEAN : shouldClose' = close
    /\ UNCHANGED <<mainVars, pc, mesh, gpu, error, freeCalls>>

Flat_Cleanup ==
    /\ prog = "flat"
    /\ pc = "render"
    /\ shouldClose
    /\ gpu' = gpu \ {"VAO", "VBO", "program"}
    /\ pc' = "freeMesh"
    /\ UNCHANGED <<mainVars, mesh, shouldClose, error, freeCalls>>

Flat_FreeMesh ==
    /\ prog = "flat"
    /\ pc = "freeMesh"
    /\ mesh' = [vertices |-> <<>>, vertexCount |-> 0, alloc |-> "null"]
    /\ freeCalls' = freeCalls + 1
    /\ pc' = "exit"
    /\ UNCHANGED <<mainVars, gpu, shouldClose, error>>

Flat_Exit ==
    /\ prog = "flat"
    /\ pc = "exit"
    /\ gpu' = {}
    /\ pc' = "done"
    /\ UNCHANGED <<mainVars, mesh, shouldClose, error, freeCalls>>

Next ==
    \/ Idx_Parse \/ Idx_NextShape \/ Idx_NextFace \/ Idx_EndShapes \/ Idx_Corner
    \/ Idx_CornerFault \/ Idx_Return \/ Idx_LoadTexture \/ Idx_CreateBuffers
    \/ Idx_CreateShaders \/ Idx_RenderFrame \/ Idx_Cleanup \/ Idx_FreeMesh \/ Idx_Exit
    \/ Flat_Parse \/ Flat_NextShape \/ Flat_NextFace \/ Flat_EndShapes \/ Flat_Corner
    \/ Flat_CornerFault \/ Flat_Return \/ Flat_CreateBuffers \/ Flat_CreateShaders
    \/ Flat_RenderFrame \/ Flat_Cleanup \/ Flat_FreeMesh \/ Flat_Exit

Spec == Init /\ [][Next]_vars


(***************************************************************************)
(* Properties                                                              *)
(***************************************************************************)
\* loadOBJ's vectors are in scope.
Building == pc \in {"face", "corner", "return"}

Returned == mesh.alloc = "live"

\* The vertex and index sequences: the vectors during the build, the
\* returned Mesh after it.
OutV == IF Returned THEN mesh.vertices ELSE vertices

OutI == IF Returned THEN mesh.indices ELSE indices

AllDistinct(s) == \A j, k \in 1..Len(s) : j # k => s[j] # s[k]

\* The first corner of the stream that holds x.
FirstCorner(x) ==
    CHOOSE k \in 1..Len(corners) : corners[k] = x /\ \A m \in 1..(k - 1) : corners[m] # x

\* C1: after every corner and in the returned mesh, the index sequence is as
\* long as the corner stream, and vertices[indices[k]] is the Vertex resolved
\* for corner k, field by field; indexCount is the number of corners.
C1_RoundTrip ==
    (Building \/ Returned) =>
        /\ Len(OutI) = Len(corners)
        /\ \A k \in 1..Len(corners) :
              /\ OutI[k] < Len(OutV)
              /\ OutV[OutI[k] + 1].position = corners[k].position
              /\ OutV[OutI[k] + 1].normal = corners[k].normal
              /\ OutV[OutI[k] + 1].texcoords = corners[k].texcoords
        /\ Returned => mesh.indexCount = Len(corners)

C1_Witness ==
    /\ Returned
    /\ obj = FileNormals
    /\ mesh.indexCount = 6
    /\ mesh.vertexCount = 3
    /\ mesh.indices[1] # mesh.indices[4]

\* C2: after every corner the vertex sequence holds no Vertex twice, the keys
\* of uniqueVertices are the vertices of the sequence, each mapped to its
\* place in it, and corners with equal values have equal indices, wherever
\* they are; corners A, B, A give 2 vertices and the indices 0, 1, 0.
C2_GlobalCollapse ==
    (Building \/ Returned) =>
        /\ AllDistinct(OutV)
        /\ Building =>
              uniqueVertices = {[key |-> vertices[i], value |-> i - 1] : i \in 1..Len(vertices)}
        /\ Len(OutI) = Len(corners)
        /\ \A j, k \in 1..Len(corners) : corners[j] = corners[k] => OutI[j] = OutI[k]
        /\ (Len(corners) = 3 /\ corners[1] = corners[3] /\ corners[1] # corners[2])
              => (Len(OutV) = 2 /\ OutI = <<0, 1, 0>>)

C2_Witness ==
    /\ pc = "face"
    /\ Len(corners) = 6
    /\ f = 1
    /\ corners[1] = corners[3]
    /\ corners[1] = corners[6]
    /\ corners[1] # corners[2]
    /\ HashVertex(corners[1]) = HashVertex(corners[2])
    /\ Len(vertices) = 2
    /\ Cardinality(uniqueVertices) = 2

\* C3: during the build every index appended so far is below the current
\* number of unique vertices, and the index count is a multiple of 3 after
\* each completed face; in the returned mesh every index is below
\* vertexCount and indexCount is a multiple of 3.
C3_IndexRange ==
    /\ Building => \A k \in 1..Len(indices) : 0 <= indices[k] /\ indices[k] < Len(vertices)
    /\ pc \in {"face", "return"} => Len(indices) % 3 = 0
    /\ (Returned /\ prog = "indexed") =>
          /\ mesh.vertexCount = Len(mesh.vertices)
          /\ mesh.indexCount = Len(mesh.indices)
          /\ mesh.indexCount % 3 = 0
          /\ \A k \in 1..Len(mesh.indices) :
                0 <= mesh.indices[k] /\ mesh.indices[k] < mesh.vertexCount

C3_Witness ==
    /\ Returned
    /\ mesh.indexCount = 6
    /\ mesh.vertexCount = 2
    /\ mesh.indices[6] = 1

\* C4: every vertex occurs in the stream, the vertices are in the order of
\* their first corners, and the index values first appear in the order
\* 0, 1, 2, ...
C4_FirstOccurrence ==
    (Building \/ Returned) =>
        /\ \A i \in 1..Len(OutV) : \E k \in 1..Len(corners) : corners[k] = OutV[i]
        /\ \A i, j \in 1..Len(OutV) :
              i < j => FirstCorner(OutV[i]) < FirstCorner(OutV[j])
        /\ \A k \in 1..Len(OutI) :
              OutI[k] <= Cardinality({OutI[m] : m \in 1..(k - 1)})

\* The file's second position comes first, its first position second.
C4_Witness ==
    /\ Returned
    /\ obj = FileNormals
    /\ mesh.vertexCount = 3
    /\ mesh.vertices[1].position = <<1, 2, 1>>
    /\ mesh.vertices[2].position = <<1, 0, 1>>
    /\ mesh.indices[1] = 0
    /\ mesh.indices[2] = 1

\* C5: with F faces read, there are at most 3 * F vertices, and exactly
\* 3 * F iff no two corners of the stream have equal values.
C5_BoundedSize ==
    (pc \in {"face", "return"} \/ Returned) =>
        /\ Len(corners) % 3 = 0
        /\ Len(OutV) <= Len(corners)
        /\ (Len(OutV) = Len(corners)) <=> AllDistinct(corners)

C5_Witness ==
    /\ Returned
    /\ Len(corners) = 6
    /\ mesh.vertexCount = 6

\* C6: a face whose corner count is not 3 ends the load with an error and
\* without a mesh; none of its corners is read.
C6_StrictTriangulation ==
    fv \notin {0, 3} =>
        /\ pc = "terminated"
        /\ error = NonTriangleMsg
        /\ mesh.alloc = "none"

\* C7: no source array is read outside its bounds, and a corner whose triple
\* is out of range ends the load with an error and without a mesh.
C7_OutOfRangeIsFatal ==
    /\ ~oob
    /\ ~IdxInRange(obj.attrib, idx) => (pc = "terminated" /\ error # "" /\ mesh.alloc = "none")

\* C8: the normal of every resolved corner is the loader's fallback, (0,0,1)
\* in the indexed loader and (0,0,0) in the flat one, when the normals array
\* is empty or the corner's normal index negative, and the indexed normal
\* otherwise; likewise the texcoord, with the fallback (0,0). With an empty
\* normals array every vertex has the fallback normal, and the load fails
\* for no other reason than a file that does not parse or, in the flat
\* loader, a face that is no triangle.
C8_MissingAttributeFallback ==
    LET a == obj.attrib
        fb == IF prog = "indexed" THEN <<0, 0, 1>> ELSE <<0, 0, 0>>
        ni == idx.normal_index
        ti == idx.texcoord_index
    IN  /\ (Building /\ corners # <<>> /\ ~oob) =>
              LET c == corners[Len(corners)]
              IN  /\ c.normal = (IF a.normals = <<>> \/ ni < 0 THEN fb
                                 ELSE <<a.normals[3 * ni + 1], a.normals[3 * ni + 2],
                                        a.normals[3 * ni + 3]>>)
                  /\ c.texcoords = (IF a.texcoords = <<>> \/ ti < 0 THEN <<0, 0>>
                                    ELSE <<a.texcoords[2 * ti + 1], a.texcoords[2 * ti + 2]>>)
        /\ (a.normals = <<>> /\ (Building \/ Returned)) =>
              \A i \in 1..Len(OutV) : OutV[i].normal = fb
        /\ (a.normals = <<>> \/ a.texcoords = <<>>) =>
              /\ pc # "crashed"
              /\ (pc = "terminated" /\ mesh.alloc = "none") =>
                    \/ error \in {"Failed to load OBJ", "Failed to load OBJ file."}
                    \/ prog = "flat" /\ error = NonTriangleMsg

\* A corner that names normal 0 and texcoord 0 of a file that has neither.
C8_Witness ==
    /\ pc = "return"
    /\ obj.attrib.normals = <<>>
    /\ obj.attrib.texcoords = <<>>
    /\ prog = "indexed"
    /\ idx.normal_index = 0
    /\ idx.texcoord_index = 0
    /\ Len(vertices) = 2
    /\ vertices[2].normal = <<0, 0, 1>>
    /\ vertices[2].texcoords = <<0, 0>>

LoadFailed ==
    /\ pc = "terminated"
    /\ error \in {"Failed to load OBJ", "Failed to load OBJ file.", NonTriangleMsg}

\* C9: when loadOBJ has failed there is no Mesh, nothing of the vectors is
\* left and no GPU object exists; none exists before loadOBJ has returned.
C9_FailedLoadAllocatesNothing ==
    /\ LoadFailed =>
          /\ mesh.alloc = "none"
          /\ vertices = <<>>
          /\ indices = <<>>
          /\ gpu = {}
    /\ (pc \in {"loadOBJ", "face", "corner", "return"}) => gpu = {}
    /\ gpu # {} => (mesh.alloc # "none" /\ error = "")

\* The flat loader throws at the second face, after three corners.
C9_Witness ==
    /\ LoadFailed
    /\ error = NonTriangleMsg
    /\ Len(corners) = 3
    /\ gpu = {}

\* C10: once main has ended, a mesh that loadOBJ returned has been released
\* by exactly one call of freeMesh, which left the pointers null and the
\* counts 0; the release comes after the GPU buffers are deleted.
C10_MeshReleasedOnce ==
    /\ freeCalls <= 1
    /\ (pc \in {"done", "terminated"} /\ mesh.alloc # "none") =>
          (freeCalls = 1 /\ mesh.alloc = "null")
    /\ mesh.alloc = "null" =>
          /\ gpu \cap {"VAO", "VBO", "EBO"} = {}
          /\ mesh.vertices = <<>>
          /\ mesh.vertexCount = 0
          /\ pc \in {"exit", "done"}

====
